---- MODULE Spec2Model ----
(***************************************************************************)
(* Flask-Locale (flask_locale/__init__.py): the translation catalog, its   *)
(* lazy load and refresh, closest-match locale resolution and translation  *)
(* lookup.                                                                 *)
(*                                                                         *)
(* Strings whose characters the code inspects (locale codes, file names,   *)
(* Accept-Language headers) are sequences of one-character strings, so     *)
(* that split, replace, lower, startswith and the file-name pattern are    *)
(* computed character by character.  Messages and translations, which the  *)
(* code only uses as dictionary keys and values, are atomic strings.       *)
(*                                                                         *)
(* Scope: file mode of load_translations (no db_loader callback is ever    *)
(* registered); files open and decode without error; callbacks return.     *)
(* Text conversion is taken at its documented behaviour: to_unicode        *)
(* returns a text field unchanged, which needs an interpreter that knows   *)
(* the name unicode (line 34 raises NameError where it is undefined, and   *)
(* then no file with a data row loads), and str() at line 310 returns the  *)
(* text it is given.                                                       *)
(***************************************************************************)
EXTENDS Integers, Sequences, FiniteSets, TLC

(***************************************************************************)
(* Python values                                                           *)
(***************************************************************************)

\* Python's None, and a value that is not None, in one record shape.
None == [none |-> TRUE, val |-> <<>>]

Some(v) == [none |-> FALSE, val |-> v]

\* An empty dict; dicts are functions.
EmptyDict == <<>>

\* dict.get(key, default)
DictGet(d, key, default) == IF key \in DOMAIN d THEN d[key] ELSE default

\* dict d with d[key] = value set
DictSet(d, key, value) ==
  [k \in DOMAIN d \cup {key} |-> IF k = key THEN value ELSE d[k]]

(***************************************************************************)
(* str methods                                                             *)
(***************************************************************************)

LowerChars ==
  <<"a","b","c","d","e","f","g","h","i","j","k","l","m",
    "n","o","p","q","r","s","t","u","v","w","x","y","z">>

UpperChars ==
  <<"A","B","C","D","E","F","G","H","I","J","K","L","M",
    "N","O","P","Q","R","S","T","U","V","W","X","Y","Z">>

Digits == <<"0","1","2","3","4","5","6","7","8","9">>

IsLowerChar(c) == \E i \in DOMAIN LowerChars : LowerChars[i] = c

IsUpperChar(c) == \E i \in DOMAIN UpperChars : UpperChars[i] = c

IsDigit(c) == \E i \in DOMAIN Digits : Digits[i] = c

DigitValue(c) == (CHOOSE i \in DOMAIN Digits : Digits[i] = c) - 1

LowerChar(c) ==
  IF IsUpperChar(c)
  THEN LowerChars[CHOOSE i \in DOMAIN UpperChars : UpperChars[i] = c]
  ELSE c

\* s.lower()
Lower(s) == [i \in 1..Len(s) |-> LowerChar(s[i])]

\* s.replace(old, new) for one-character old and new
Replace(s, old, new) == [i \in 1..Len(s) |-> IF s[i] = old THEN new ELSE s[i]]

\* s.split(sep) for a one-character sep: always at least one part
RECURSIVE Split(_, _)
Split(s, sep) ==
  IF \A i \in 1..Len(s) : s[i] # sep
  THEN <<s>>
  ELSE LET k == CHOOSE i \in 1..Len(s) :
                   s[i] = sep /\ \A j \in 1..(i - 1) : s[j] # sep
       IN  <<SubSeq(s, 1, k - 1)>> \o Split(SubSeq(s, k + 1, Len(s)), sep)

\* s.startswith(prefix)
StartsWith(s, prefix) ==
  Len(prefix) <= Len(s) /\ SubSeq(s, 1, Len(prefix)) = prefix

\* s.strip(): leading and trailing blanks removed
RECURSIVE Strip(_)
Strip(s) ==
  IF s = <<>> THEN s
  ELSE IF Head(s) = " " THEN Strip(Tail(s))
  ELSE IF s[Len(s)] = " " THEN Strip(SubSeq(s, 1, Len(s) - 1))
  ELSE s

\* float(s) on the decimal forms digits[.digits] and .digits with at most two
\* fractional digits, as a number of hundredths; anything else the headers of
\* this model hold is a ValueError.
RECURSIVE DigitsValue(_)
DigitsValue(s) ==
  IF s = <<>> THEN 0
  ELSE 10 * DigitsValue(SubSeq(s, 1, Len(s) - 1)) + DigitValue(s[Len(s)])

Float(s) ==
  LET p == Split(s, ".")
      allDigits(x) == \A i \in 1..Len(x) : IsDigit(x[i])
  IN  IF Len(p) = 1 /\ p[1] # <<>> /\ allDigits(p[1])
      THEN [ok |-> TRUE, val |-> 100 * DigitsValue(p[1])]
      ELSE IF /\ Len(p) = 2
              /\ allDigits(p[1]) /\ allDigits(p[2])
              /\ Len(p[1]) + Len(p[2]) > 0
              /\ Len(p[2]) <= 2
      THEN [ok |-> TRUE,
            val |-> 100 * DigitsValue(p[1])
                    + (IF Len(p[2]) = 1 THEN 10 ELSE 1) * DigitsValue(p[2])]
      ELSE [ok |-> FALSE, val |-> 0]

\* re.match("[a-z]+(_[A-Z]+)?$", s): "$" also matches before a final newline
LocalePattern(s) ==
  LET t == IF s # <<>> /\ s[Len(s)] = "\n" THEN SubSeq(s, 1, Len(s) - 1) ELSE s
      p == Split(t, "_")
      lower(x) == x # <<>> /\ \A i \in 1..Len(x) : IsLowerChar(x[i])
      upper(x) == x # <<>> /\ \A i \in 1..Len(x) : IsUpperChar(x[i])
  IN  \/ Len(p) = 1 /\ lower(p[1])
      \/ Len(p) = 2 /\ lower(p[1]) /\ upper(p[2])

(***************************************************************************)
(* The translation directory (LOCALE_PATH): file name -> parsed CSV rows   *)
(***************************************************************************)

s_en == <<"e","n">>

s_en_US == <<"e","n","_","U","S">>

s_tr_TR == <<"t","r","_","T","R">>

s_csv == <<".","c","s","v">>

\* File names: three the pattern accepts ("en", "en_US", "tr_TR"), one it
\* rejects ("EN"), one without an extension and one with two dots.
p_en == s_en \o s_csv

p_en_US == s_en_US \o s_csv

p_tr_TR == s_tr_TR \o s_csv

p_EN == <<"E","N">> \o s_csv

p_README == <<"R","E","A","D","M","E">>

p_common == <<"c","o","m","m","o","n",".","e","s","_","G","T">> \o s_csv

\* What csv.reader yields for each file: rows of fields.
Files ==
  (p_en :> << <<"Hello", "Hello there", "singular">>,
              <<"Bye", "Goodbye">> >>)
  @@ (p_en_US :> << <<"Hello", "Howdy">>,
                    <<"1 item", "One item", "singular">>,
                    <<"%(n)s items", "Many items", "plural">> >>)
  @@ (p_tr_TR :> << <<"Hello", "Merhaba ">>,
                    <<"Bye">>,
                    <<"Bye", "Hosca kal", "maybe">>,
                    <<"%(n)s items", "Cok", "plural">>,
                    <<"Bye", "Gule gule", "">> >>)
  @@ (p_EN :> << <<"Hello", "HELLO">> >>)
  @@ (p_README :> << <<"Hello", "readme">> >>)
  @@ (p_common :> << <<"Hello", "Hola GT">> >>)

\* The most files a directory of the model holds.
MaxFiles == 2

\* The directories: at most MaxFiles of the files above.
Directories ==
  { [p \in names |-> Files[p]] :
      names \in { n \in SUBSET DOMAIN Files : Cardinality(n) <= MaxFiles } }

(***************************************************************************)
(* Locale.load_translations, file mode                                     *)
(***************************************************************************)

\* to_unicode(c).strip() on a CSV field (fields are atomic here: the one
\* field of the model that carries a trailing blank loses it)
StripField(c) == IF c = "Merhaba " THEN "Merhaba" ELSE c

PluralIndicators == {"plural", "singular", "unknown"}

\* The loop over the rows of one file (lines 155-168): table is
\* _translations[locale].
RECURSIVE LoadRows(_, _)
LoadRows(table, rows) ==
  IF rows = <<>> THEN table
  ELSE LET raw == Head(rows)
           row == [i \in 1..Len(raw) |-> StripField(raw[i])]
           plural == IF Len(row) > 2 /\ row[3] # "" THEN row[3] ELSE "unknown"
       IN  IF Len(raw) < 2 THEN LoadRows(table, Tail(rows))
           ELSE IF plural \notin PluralIndicators THEN LoadRows(table, Tail(rows))
           ELSE LoadRows(
                  DictSet(table, plural,
                          DictSet(DictGet(table, plural, EmptyDict), row[1], row[2])),
                  Tail(rows))

\* locale, ext = path.split("."): a ValueError unless there are exactly two parts
UnpackFails(path) == Len(Split(path, ".")) # 2

\* load_translations(directory) inside a request context.  The result is
\* assigned only at the end (lines 170-172), so an exception leaves the
\* instance as it was.  No two files of the model name the same locale, so
\* the order of os.listdir does not matter to the catalog.
load_translations(directory) ==
  LET paths == DOMAIN directory
      locale(path) == Split(path, ".")[1]
      accepted == { path \in paths : LocalePattern(locale(path)) }
  IN  IF \E path \in paths : UnpackFails(path)
      THEN [exc |-> "ValueError", translations |-> EmptyDict, logged |-> {}]
      ELSE [exc |-> "None",
            translations |->
              [loc \in { locale(path) : path \in accepted } |->
                 LoadRows(EmptyDict,
                          directory[CHOOSE path \in accepted : locale(path) = loc])],
            logged |-> paths \ accepted]

(***************************************************************************)
(* What a call does: the exception it raises ("None" when it returns), the *)
(* instance's fields after it, and what it returned.  how, selected,       *)
(* reloaded, codes and headerConsulted record the path taken.              *)
(***************************************************************************)

Outcome(exc, tr, sup, table, how, selected, reloaded) ==
  [exc |-> exc, translations |-> tr, supported |-> sup, table |-> table,
   how |-> how, selected |-> selected, reloaded |-> reloaded,
   codes |-> <<>>, headerConsulted |-> FALSE]

(***************************************************************************)
(* Locale.get_closest and Locale.get                                       *)
(***************************************************************************)

\* Locale.get(code): self._translations.get(code, {})
get(catalog, code) == DictGet(catalog, code, EmptyDict)

\* The supported codes the inner loop accepts for a candidate (line 237)
prefix_matches(sup, code) ==
  LET parts == Split(code, "_")
  IN  { c \in sup : StartsWith(c, Lower(parts[1]) \o <<"_">>) }

\* The loop over the candidates (lines 229-238): every selection it can make.
\* A frozenset iterates in no fixed order, so any prefix match may come first.
RECURSIVE closest(_, _)
closest(sup, locale_codes) ==
  IF locale_codes = <<>> THEN {[how |-> "default", code |-> <<>>]}
  ELSE IF Head(locale_codes) = <<>> THEN closest(sup, Tail(locale_codes))
  ELSE LET code == Replace(Head(locale_codes), "-", "_")
       IN  IF code \in sup THEN {[how |-> "exact", code |-> code]}
           ELSE IF prefix_matches(sup, code) # {}
           THEN {[how |-> "prefix", code |-> c] : c \in prefix_matches(sup, code)}
           ELSE closest(sup, Tail(locale_codes))

\* get_closest(*locale_codes).  ctx: a request context is active (get_app()
\* returns the application); without one app is None and app.config raises.
get_closest(tr, sup, directory, default, ctx, locale_codes) ==
  LET load == load_translations(directory)
  IN  IF tr.none /\ ~ctx
      THEN {Outcome("AttributeError", tr, sup, None, "none", <<>>, FALSE)}
      ELSE IF tr.none /\ load.exc # "None"
      THEN {Outcome(load.exc, tr, sup, None, "none", <<>>, FALSE)}
      ELSE LET tr1 == IF tr.none THEN Some(load.translations) ELSE tr
               sup1 == IF tr.none THEN DOMAIN load.translations ELSE sup
           IN  { IF m.how = "default" /\ ~ctx
                 THEN Outcome("AttributeError", tr1, sup1, None, "none", <<>>, tr.none)
                 ELSE IF m.how = "default"
                 THEN Outcome("None", tr1, sup1, Some(get(tr1.val, default)),
                              m.how, default, tr.none)
                 ELSE Outcome("None", tr1, sup1, Some(get(tr1.val, m.code)),
                              m.how, m.code, tr.none)
                 : m \in closest(sup1, locale_codes) }

(***************************************************************************)
(* Locale.get_browser_locale                                               *)
(***************************************************************************)

\* One header entry (lines 206-214): (parts[0], score), scores in hundredths
parse_language(language) ==
  LET parts == Split(Strip(language), ";")
      f == Float(SubSeq(parts[2], 3, Len(parts[2])))
  IN  IF Len(parts) > 1 /\ StartsWith(parts[2], <<"q", "=">>)
      THEN [code |-> parts[1], score |-> IF f.ok THEN f.val ELSE 0]
      ELSE [code |-> parts[1], score |-> 100]

\* The list locales (lines 203-214)
parse_header(header) ==
  LET languages == Split(header, ",")
  IN  [i \in 1..Len(languages) |-> parse_language(languages[i])]

\* def get_loc_key(l, s): the parameters of the sort key
GetLocKeyParams == 2

\* list.sort(key=f) calls f with one argument, the element
SortKeyArgs == 1

\* A stable sort by descending score: what sort(reverse=True) does once the
\* key function returns
RECURSIVE insert_desc(_, _)
insert_desc(sorted, e) ==
  IF sorted = <<>> THEN <<e>>
  ELSE IF Head(sorted).score >= e.score
  THEN <<Head(sorted)>> \o insert_desc(Tail(sorted), e)
  ELSE <<e>> \o sorted

RECURSIVE sort_desc(_)
sort_desc(locales) ==
  IF locales = <<>> THEN <<>>
  ELSE insert_desc(sort_desc(SubSeq(locales, 1, Len(locales) - 1)),
                   locales[Len(locales)])

\* locales.sort(key=get_loc_key, reverse=True) (line 217): the key is called
\* on the first element, with SortKeyArgs arguments
sort_locales(locales) ==
  IF locales # <<>> /\ SortKeyArgs # GetLocKeyParams
  THEN [exc |-> "TypeError", val |-> locales]
  ELSE [exc |-> "None", val |-> sort_desc(locales)]

\* get_browser_locale(), inside a request; header is the Accept-Language
\* header, None when the request has none
get_browser_locale(tr, sup, directory, default, header) ==
  LET locales == parse_header(header.val)
      sorted == sort_locales(locales)
      codes == [i \in 1..Len(sorted.val) |-> sorted.val[i].code]
  IN  IF ~header.none /\ sorted.exc # "None"
      THEN {[Outcome(sorted.exc, tr, sup, None, "none", <<>>, FALSE)
               EXCEPT !.headerConsulted = TRUE]}
      ELSE IF ~header.none
      THEN {[o EXCEPT !.headerConsulted = TRUE, !.codes = codes] :
              o \in get_closest(tr, sup, directory, default, TRUE, codes)}
      ELSE {[o EXCEPT !.headerConsulted = TRUE] :
              o \in get_closest(tr, sup, directory, default, TRUE, <<default>>)}

(***************************************************************************)
(* get_translation and do_translate                                        *)
(***************************************************************************)

\* get_translation() with "if rv:" in place of "if rv is not None:": an
\* empty string from the callback goes on to the header
get_translation_truthy(tr, sup, directory, default, ctx, selector, rv, header) ==
  IF ~ctx
  THEN {Outcome("None", tr, sup, None, "none", <<>>, FALSE)}
  ELSE IF selector /\ ~rv.none /\ rv.val # <<>>
  THEN get_closest(tr, sup, directory, default, TRUE, <<rv.val>>)
  ELSE get_browser_locale(tr, sup, directory, default, header)

\* get_translation().  selector: a localeselector callback is registered;
\* rv: what the callback returns when called.
get_translation(tr, sup, directory, default, ctx, selector, rv, header) ==
  IF ~ctx
  THEN {Outcome("None", tr, sup, None, "none", <<>>, FALSE)}
  ELSE IF selector /\ ~rv.none
  THEN get_closest(tr, sup, directory, default, TRUE, <<rv.val>>)
  ELSE get_browser_locale(tr, sup, directory, default, header)

\* None for an atomic string and for a number
NoneText == [none |-> TRUE, val |-> ""]

NoneInt == [none |-> TRUE, val |-> 0]

\* do_translate that, without plural_message, also falls back to "unknown"
\* when the "singular" mapping exists and lacks the message
do_translate_unknown_fallback(translation, message, plural_message, count) ==
  IF ~plural_message.none /\ (count.none \/ count.val = 0)
  THEN [exc |-> "AssertionError", value |-> ""]
  ELSE IF translation.none
  THEN [exc |-> "AttributeError", value |-> ""]
  ELSE IF ~plural_message.none /\ count.val # 1
  THEN [exc |-> "None",
        value |-> DictGet(DictGet(translation.val, "plural", EmptyDict),
                          plural_message.val, plural_message.val)]
  ELSE IF ~plural_message.none
  THEN [exc |-> "None",
        value |-> DictGet(DictGet(translation.val, "singular", EmptyDict),
                          message, message)]
  ELSE [exc |-> "None",
        value |-> DictGet(DictGet(translation.val, "singular", EmptyDict),
                          message,
                          DictGet(DictGet(translation.val, "unknown", EmptyDict),
                                  message, message))]

\* do_translate(message, plural_message, count) from line 299 on, translation
\* being what get_translation() returned
do_translate(translation, message, plural_message, count) ==
  IF ~plural_message.none /\ (count.none \/ count.val = 0)
  THEN [exc |-> "AssertionError", value |-> ""]
  ELSE IF translation.none
  THEN [exc |-> "AttributeError", value |-> ""]
  ELSE IF ~plural_message.none /\ count.val # 1
  THEN [exc |-> "None",
        value |-> DictGet(DictGet(translation.val, "plural", EmptyDict),
                          plural_message.val, plural_message.val)]
  ELSE IF ~plural_message.none
  THEN [exc |-> "None",
        value |-> DictGet(DictGet(translation.val, "singular", EmptyDict),
                          message, message)]
  ELSE IF "singular" \in DOMAIN translation.val
  THEN [exc |-> "None",
        value |-> DictGet(translation.val["singular"], message, message)]
  ELSE [exc |-> "None",
        value |-> DictGet(DictGet(translation.val, "unknown", EmptyDict),
                          message, message)]

(***************************************************************************)
(* The inputs of the model                                                 *)
(***************************************************************************)

\* default_locale of Locale(app, default_locale), which init_app also
\* stores as DEFAULT_LOCALE
DefaultLocales == {s_en}

\* (message, plural_message, count) of a do_translate call
TranslateArgs ==
  { [message |-> m, plural_message |-> NoneText, count |-> NoneInt] :
      m \in {"Hello"} }
  \cup
  { [message |-> "1 item", plural_message |-> Some("%(n)s items"), count |-> c] :
      c \in {NoneInt, Some(-1), Some(0), Some(1), Some(5)} }

\* What the localeselector callback returns: None, "", "tr-TR"
SelectorReturns == {None, Some(<<>>), Some(<<"t","r","-","T","R">>)}

\* The request's Accept-Language header: none, or "fr;q=x,en;q=0.8, tr-TR"
Headers ==
  {None,
   Some(<<"f","r",";","q","=","x",",","e","n",";","q","=","0",".","8",",",
          " ","t","r","-","T","R">>)}

\* The arguments of a direct get_closest call: ("en-GB"), ("fr", "tr-TR"),
\* ("", "en_US"), ("EN-gb", "tr"), ("fr")
CandidateLists ==
  { << <<"e","n","-","G","B">> >>,
    << <<"f","r">>, <<"t","r","-","T","R">> >>,
    << <<>>, s_en_US >>,
    << <<"E","N","-","g","b">>, <<"t","r">> >>,
    << <<"f","r">> >> }

(***************************************************************************)
(* State                                                                   *)
(***************************************************************************)

VARIABLES
  translations,          \* Locale._translations: None or the catalog
  supported_locales,     \* Locale._supported_locales
  locale_selector_func,  \* a localeselector callback is registered
  default_locale,        \* Locale._default_locale = app.config['DEFAULT_LOCALE']
  directory,             \* the files under app.config['LOCALE_PATH']
  last,                  \* the last call: its arguments and what it did
  last_load              \* the key set of the last load that completed

vars ==
  <<translations, supported_locales, locale_selector_func, default_locale,
    directory, last, last_load>>

\* The record of a call
Call(op, ctx, args, rv, header, codes, o, value) ==
  [op |-> op, ctx |-> ctx, args |-> args, rv |-> rv, header |-> header,
   locale_codes |-> codes, exc |-> o.exc, value |-> value, table |-> o.table,
   how |-> o.how, selected |-> o.selected, reloaded |-> o.reloaded,
   codes |-> o.codes, headerConsulted |-> o.headerConsulted,
   selector |-> locale_selector_func]

NoArgs == [message |-> "", plural_message |-> NoneText, count |-> NoneInt]

\* A call that resolves nothing: it raised exc or returned None
Plain(exc) == Outcome(exc, translations, supported_locales, None, "none", <<>>, FALSE)

\* Locale.__init__ (lines 47-56): frozenset(default_locale) is the set of
\* the characters of the string
Init ==
  /\ default_locale \in DefaultLocales
  /\ supported_locales =
       { <<default_locale[i]>> : i \in 1..Len(default_locale) }
  /\ translations = None
  /\ locale_selector_func = FALSE
  /\ directory \in Directories
  /\ last_load = None
  /\ last = Call("init", TRUE, NoArgs, None, None, <<>>, Plain("None"), "")

\* Locale.localeselector(f)
LocaleSelector ==
  /\ locale_selector_func' = TRUE
  /\ last' = Call("localeselector", TRUE, NoArgs, None, None, <<>>,
                  Plain(IF locale_selector_func THEN "AssertionError" ELSE "None"),
                  "")
  /\ UNCHANGED <<translations, supported_locales, default_locale, directory,
                 last_load>>

\* Locale.load_translations(app.config['LOCALE_PATH']) called directly;
\* without a request context app is None and app.logger raises
LoadTranslations(ctx) ==
  LET load == load_translations(directory)
      exc == IF ~ctx THEN "AttributeError" ELSE load.exc
  IN  /\ last' = Call("load_translations", ctx, NoArgs, None, None, <<>>,
                      [Plain(exc) EXCEPT !.reloaded = (exc = "None")], "")
      /\ IF exc = "None"
         THEN /\ translations' = Some(load.translations)
              /\ supported_locales' = DOMAIN load.translations
              /\ last_load' = Some(DOMAIN load.translations)
         ELSE UNCHANGED <<translations, supported_locales, last_load>>
      /\ UNCHANGED <<locale_selector_func, default_locale, directory>>

\* refresh() and Locale.refresh()
Refresh(ctx) ==
  /\ translations' = IF ctx THEN None ELSE translations
  /\ last' = Call("refresh", ctx, NoArgs, None, None, <<>>, Plain("None"), "")
  /\ UNCHANGED <<supported_locales, locale_selector_func, default_locale,
                 directory, last_load>>

\* What a lookup leaves behind: the instance's fields after outcome o
Resolved(o) ==
  /\ translations' = o.translations
  /\ supported_locales' = o.supported
  /\ last_load' = IF o.reloaded THEN Some(o.supported) ELSE last_load
  /\ UNCHANGED <<locale_selector_func, default_locale, directory>>

\* locale.get_closest(*locale_codes) called directly
GetClosest(ctx, locale_codes) ==
  \E o \in get_closest(translations, supported_locales, directory,
                       default_locale, ctx, locale_codes) :
    /\ last' = Call("get_closest", ctx, NoArgs, None, None, locale_codes, o, "")
    /\ Resolved(o)

\* do_translate(message, plural_message, count): what translate() and _()
\* run when their lazy string is converted
DoTranslate(ctx, args, rv, header) ==
  \E o \in get_translation(translations, supported_locales, directory,
                           default_locale, ctx, locale_selector_func, rv, header) :
    LET r == IF o.exc # "None"
             THEN [exc |-> o.exc, value |-> ""]
             ELSE do_translate(o.table, args.message, args.plural_message,
                               args.count)
    IN  /\ last' = Call("do_translate", ctx, args, rv, header, <<>>,
                        [o EXCEPT !.exc = r.exc], r.value)
        /\ Resolved(o)

\* The files under LOCALE_PATH change: one file is added or removed
EditDirectory ==
  /\ directory' \in
       { d \in Directories :
           \E p \in DOMAIN Files :
             \/ p \notin DOMAIN directory /\ DOMAIN d = DOMAIN directory \cup {p}
             \/ p \in DOMAIN directory /\ DOMAIN d = DOMAIN directory \ {p} }
  /\ last' = Call("edit", TRUE, NoArgs, None, None, <<>>, Plain("None"), "")
  /\ UNCHANGED <<translations, supported_locales, locale_selector_func,
                 default_locale, last_load>>

Next ==
  \/ LocaleSelector
  \/ \E ctx \in BOOLEAN : LoadTranslations(ctx)
  \/ \E ctx \in BOOLEAN : Refresh(ctx)
  \/ \E ctx \in BOOLEAN, locale_codes \in CandidateLists :
       GetClosest(ctx, locale_codes)
  \/ \E args \in TranslateArgs :
       \/ DoTranslate(FALSE, args, None, None)
       \/ \E header \in Headers :
            \E rv \in IF locale_selector_func THEN SelectorReturns ELSE {None} :
              DoTranslate(TRUE, args, rv, header)
  \/ EditDirectory

Spec == Init /\ [][Next]_vars

(***************************************************************************)
(* Properties                                                              *)
(***************************************************************************)

\* The dictionary a lookup without plural_message is to use: "singular", or
\* "unknown" when the table has no "singular" mapping at all
ChosenMapping(table) ==
  IF "singular" \in DOMAIN table THEN table["singular"]
  ELSE IF "unknown" \in DOMAIN table THEN table["unknown"]
  ELSE EmptyDict

C2_PluralByCount ==
  /\ (last.op = "do_translate" /\ ~last.table.none
      /\ ~last.args.plural_message.none /\ ~last.args.count.none)
     => /\ last.exc = "None"
        /\ last.value =
             IF last.args.count.val # 1
             THEN DictGet(DictGet(last.table.val, "plural", EmptyDict),
                          last.args.plural_message.val,
                          last.args.plural_message.val)
             ELSE DictGet(DictGet(last.table.val, "singular", EmptyDict),
                          last.args.message, last.args.message)
  /\ (last.op = "do_translate" /\ last.exc = "AssertionError")
     => (~last.args.plural_message.none /\ last.args.count.none)

\* A supported code has the candidate's primary language: the parts before
\* "_" are equal, letter case ignored
SameLanguage(c, candidate) ==
  Lower(Split(c, "_")[1]) = Lower(Split(Replace(candidate, "-", "_"), "_")[1])

\* A candidate has an exact or a same-language match among the supported codes
Matches(sup, candidate) ==
  /\ candidate # <<>>
  /\ \/ Replace(candidate, "-", "_") \in sup
     \/ \E c \in sup : SameLanguage(c, candidate)

\* C3: get_closest selects, for the first candidate that has an exact or a
\* same-language match, the candidate itself ("-" replaced by "_") when it is
\* supported and otherwise a supported code of the candidate's primary
\* language, a supported code without a region part included.
C3_ClosestMatch ==
  (last.op = "get_closest" /\ last.exc = "None")
  => \A k \in 1..Len(last.locale_codes) :
       (/\ Matches(supported_locales, last.locale_codes[k])
        /\ \A j \in 1..(k - 1) : ~Matches(supported_locales, last.locale_codes[j]))
       => LET code == Replace(last.locale_codes[k], "-", "_")
          IN  /\ last.selected \in supported_locales
              /\ IF code \in supported_locales
                 THEN last.selected = code
                 ELSE SameLanguage(last.selected, last.locale_codes[k])

\* C4 as stated: a callback that returns None or the empty string sends
\* resolution to the Accept-Language header; a non-empty return value is
\* resolved by closest match and the header is not consulted.
C4_EmptyMeansHeader ==
  (last.op = "do_translate" /\ last.ctx)
  => /\ (last.selector /\ ~last.rv.none /\ last.rv.val # <<>>)
        => ~last.headerConsulted
     /\ (~last.selector \/ last.rv.none \/ last.rv.val = <<>>)
        => last.headerConsulted

\* C4, amended: get_translation consults the header (get_browser_locale) when
\* no callback is registered or the callback returns None, and only then.
\* Every other return value, the empty string included, goes to closest-match
\* resolution without the header being consulted: a supported code (after
\* "-" becomes "_") yields its own table, the empty string the table of the
\* configured default.
C4_NoneMeansHeader ==
  (last.op = "do_translate" /\ last.ctx)
  => /\ (last.selector /\ ~last.rv.none)
        => /\ ~last.headerConsulted
           /\ (last.rv.val = <<>> /\ ~last.table.none)
              => last.table.val = get(translations.val, default_locale)
           /\ (Replace(last.rv.val, "-", "_") \in supported_locales
               /\ ~last.table.none)
              => last.table.val = translations.val[Replace(last.rv.val, "-", "_")]
     /\ (~last.selector \/ last.rv.none) => last.headerConsulted

\* C4 happens: the callback returned the empty string on a request that has
\* an Accept-Language header, and a table came back without the header
\* being consulted
C4_Witness ==
  /\ last.op = "do_translate"
  /\ last.ctx
  /\ last.selector
  /\ ~last.rv.none
  /\ last.rv.val = <<>>
  /\ ~last.header.none
  /\ ~last.headerConsulted
  /\ ~last.table.none

\* C5: when no candidate matches a supported locale, exactly or by primary
\* language, get_closest returns the closest match of the configured
\* default: the default's table when the default is supported, else the table
\* of a supported code of the default's primary language, else the empty
\* table.
C5_DefaultClosest ==
  (/\ last.op = "get_closest"
   /\ last.exc = "None"
   /\ \A k \in 1..Len(last.locale_codes) :
        ~Matches(supported_locales, last.locale_codes[k]))
  => IF default_locale \in supported_locales
     THEN last.table.val = translations.val[default_locale]
     ELSE IF \E c \in supported_locales : SameLanguage(c, default_locale)
     THEN \E c \in supported_locales :
            /\ SameLanguage(c, default_locale)
            /\ last.table.val = translations.val[c]
     ELSE last.table.val = EmptyDict

\* C6: with an Accept-Language header, get_browser_locale completes with a
\* locale table, the candidates being the header's codes by descending
\* weight (1.0 without a weight, 0.0 for a malformed one), ties in header
\* order.
C6_HeaderCandidates ==
  (last.op = "do_translate" /\ last.headerConsulted /\ ~last.header.none)
  => /\ ~last.table.none
     /\ LET sorted == sort_desc(parse_header(last.header.val))
        IN  last.codes = [i \in 1..Len(sorted) |-> sorted[i].code]

\* C7: a call of refresh(), inside or outside a request context, leaves the
\* catalog unloaded, and the lookup that follows it reloads, so that the
\* catalog is exactly what the directory yields then.
C7_RefreshReloads ==
  /\ [](last.op = "refresh" => translations.none)
  /\ [][(last.op = "refresh" /\ last'.op \in {"do_translate", "get_closest"})
        => /\ last'.reloaded
           /\ translations' = Some(load_translations(directory').translations)]_vars

\* C8: get_translation never fails: outside a request context, or when the
\* request resolves to no translation, do_translate(message) returns message.
C8_NeverFails ==
  (/\ last.op = "do_translate"
   /\ last.args.plural_message.none
   /\ \/ ~last.ctx
      \/ ~last.table.none /\ last.table.val = EmptyDict)
  => (last.exc = "None" /\ last.value = last.args.message)

\* The locale a file name yields: the part before its one dot, when that
\* part matches the pattern
ValidName(path) ==
  Len(Split(path, ".")) = 2 /\ LocalePattern(Split(path, ".")[1])

\* C9: load_translations never fails because of a file name: names without
\* an extension, with several dots or with a locale part the pattern rejects
\* are skipped, and the catalog holds every validly named file of the
\* directory.
C9_BadNamesSkipped ==
  (last.op = "load_translations" /\ last.ctx)
  => /\ last.exc = "None"
     /\ ~translations.none
     /\ DOMAIN translations.val =
          { Split(path, ".")[1] : path \in { q \in DOMAIN directory : ValidName(q) } }

\* C10: _supported_locales is the key set of the catalog of the last load
\* that completed, and the empty set until the first load.
C10_SupportedIsKeySet ==
  supported_locales = IF last_load.none THEN {} ELSE last_load.val

====
